---- MODULE Spec2Model ----
(***************************************************************************)
(* Model of scripts/update_from_aqua_repository.py: the registry scan      *)
(* (extract_aqua_repos), the config merge and rewrite (update_config) and  *)
(* the entry point (main).                                                 *)
(*                                                                         *)
(* Text is a sequence of code points ("foo" is <<102, 111, 111>>), so that *)
(* lower-casing, code point order, and the rendering and re-reading of the *)
(* TOML values are computed and not assumed.  A dict is the sequence of    *)
(* its <<key, value>> pairs in insertion order, a value is a record        *)
(* [t |-> type, v |-> text].                                               *)
(***************************************************************************)
EXTENDS Integers, Sequences, FiniteSets, TLC

(***************************************************************************)
(* Bounds of the model.                                                    *)
(***************************************************************************)
MaxPkgs == 2     \* [[packages]] tables in the target config before the first run
MaxFiles == 1    \* registry.yaml files below pkgs/

(***************************************************************************)
(* Text.                                                                   *)
(***************************************************************************)
Quote == <<34>>
Slash == <<47>>
s_foo == <<102, 111, 111>>
s_Foo == <<70, 111, 111>>
s_Zed == <<90, 101, 100>>
s_bar == <<98, 97, 114>>
s_x == <<120>>
s_cli == <<99, 108, 105>>
s_foo_bar == <<102, 111, 111, 47, 98, 97, 114>>
s_Foo_bar == <<70, 111, 111, 47, 98, 97, 114>>
s_Zed_x == <<90, 101, 100, 47, 120>>
s_github_release == <<103, 105, 116, 104, 117, 98, 95, 114, 101, 108, 101, 97, 115, 101>>
s_http == <<104, 116, 116, 112>>
s_conda_forge == <<99, 111, 110, 100, 97, 45, 102, 111, 114, 103, 101>>
s_True == <<84, 114, 117, 101>>
s_False == <<70, 97, 108, 115, 101>>
s_true == <<116, 114, 117, 101>>
s_false == <<102, 97, 108, 115, 101>>
s_1 == <<49>>
s_2bs == <<92, 92>>

\* str.lower() on one code point (ASCII letters)
LowerChar(c) == IF c >= 65 /\ c <= 90 THEN c + 32 ELSE c

\* str.lower()
lower(s) == [i \in 1..Len(s) |-> LowerChar(s[i])]

\* a < b for str: code point order, a proper prefix is smaller
StrLess(a, b) ==
    \E i \in 1..(Len(b)) :
        /\ \A j \in 1..(i - 1) : j <= Len(a) /\ a[j] = b[j]
        /\ \/ i = Len(a) + 1
           \/ i <= Len(a) /\ a[i] < b[i]

\* a <= b for a tuple (str, str)
TupleLeq(a, b) ==
    \/ StrLess(a[1], b[1])
    \/ a[1] = b[1] /\ (a[2] = b[2] \/ StrLess(a[2], b[2]))

(***************************************************************************)
(* Values and dicts.                                                       *)
(***************************************************************************)
StrVal(s) == [t |-> "str", v |-> s]
IntVal(s) == [t |-> "int", v |-> s]      \* v is the decimal text of the number
BoolVal(b) == [t |-> "bool", v |-> IF b THEN s_True ELSE s_False]
DictVal(d) == [t |-> "dict", v |-> d]
NoneVal == [t |-> "none", v |-> <<>>]

\* key in d
Has(d, k) == \E i \in 1..Len(d) : d[i][1] = k

\* d.get(k, default)
Get(d, k, default) ==
    IF Has(d, k) THEN d[CHOOSE i \in 1..Len(d) : d[i][1] = k][2] ELSE default

\* truth value of a value: None and the empty str are false
Truthy(val) == val.t # "none" /\ val.v # <<>>

\* all sequences over S of length at most n
SeqsUpTo(S, n) == UNION {[1..k -> S] : k \in 0..n}

(***************************************************************************)
(* extract_aqua_repos.  A registry file is its yaml.safe_load result:      *)
(* NoneVal for an empty document, else a dict whose "packages", when       *)
(* present, is a list of dicts.                                            *)
(***************************************************************************)
GhPkg(owner, name) ==
    << <<"type", StrVal(s_github_release)>>, <<"repo_owner", StrVal(owner)>>, <<"repo_name", StrVal(name)>> >>

RegistryDocs ==
    { NoneVal,
      DictVal(<< <<"other", StrVal(s_x)>> >>),
      DictVal(<< <<"packages", << GhPkg(s_foo, s_bar),
                                  << <<"type", StrVal(s_http)>>, <<"repo_owner", StrVal(s_Zed)>>, <<"repo_name", StrVal(s_x)>> >>,
                                  GhPkg(<<>>, s_bar) >> >> >>),
      DictVal(<< <<"packages", << GhPkg(s_Foo, s_bar),
                                  GhPkg(s_foo, s_bar),
                                  GhPkg(s_Zed, s_x),
                                  << <<"type", StrVal(s_github_release)>>, <<"repo_owner", StrVal(s_foo)>> >>,
                                  << <<"repo_owner", StrVal(s_foo)>>, <<"repo_name", StrVal(s_cli)>> >> >> >> >>) }

\* PkgRepos selecting on another type
PkgReposWrongType(pkg) ==
    IF Get(pkg, "type", NoneVal) = StrVal(s_http)
    THEN LET repo_owner == Get(pkg, "repo_owner", StrVal(<<>>))
             repo_name == Get(pkg, "repo_name", StrVal(<<>>))
         IN  IF Truthy(repo_owner) /\ Truthy(repo_name)
             THEN {repo_owner.v \o Slash \o repo_name.v}
             ELSE {}
    ELSE {}

\* the identifiers one element of "packages" adds to repos
PkgRepos(pkg) ==
    IF Get(pkg, "type", NoneVal) = StrVal(s_github_release)
    THEN LET repo_owner == Get(pkg, "repo_owner", StrVal(<<>>))
             repo_name == Get(pkg, "repo_name", StrVal(<<>>))
         IN  IF Truthy(repo_owner) /\ Truthy(repo_name)
             THEN {repo_owner.v \o Slash \o repo_name.v}
             ELSE {}
    ELSE {}

\* the identifiers one registry file adds to repos
FileRepos(data) ==
    IF data.t = "none" \/ data.v = <<>> \/ ~Has(data.v, "packages")
    THEN {}
    ELSE LET pkgs == Get(data.v, "packages", <<>>)
         IN  UNION {PkgRepos(pkgs[i]) : i \in 1..Len(pkgs)}

extract_aqua_repos(files) == UNION {FileRepos(files[i]) : i \in 1..Len(files)}

(***************************************************************************)
(* The target config.  The file is kept as the text of its values: a       *)
(* table is the sequence of its <<key, value text>> lines, and the file    *)
(* is the [conda] table (empty when the section is missing) and the list   *)
(* of [[packages]] tables.                                                 *)
(***************************************************************************)
ParseError == [t |-> "error", v |-> <<>>]

\* tomllib: the rest of a basic string after its opening quote
RECURSIVE ParseBasic(_, _)
ParseBasic(s, acc) ==
    IF s = <<>> THEN ParseError
    ELSE IF Head(s) = 34
         THEN IF Tail(s) = <<>> THEN StrVal(acc) ELSE ParseError
    ELSE IF Head(s) = 92
         THEN IF Len(s) < 2 THEN ParseError
              ELSE IF s[2] \in {92, 34} THEN ParseBasic(Tail(Tail(s)), Append(acc, s[2]))
              ELSE IF s[2] = 116 THEN ParseBasic(Tail(Tail(s)), Append(acc, 9))
              ELSE IF s[2] = 110 THEN ParseBasic(Tail(Tail(s)), Append(acc, 10))
              ELSE ParseError
    ELSE IF Head(s) < 32 /\ Head(s) # 9 THEN ParseError
    ELSE ParseBasic(Tail(s), Append(acc, Head(s)))

\* tomllib: one value
ParseToken(tok) ==
    IF tok = <<>> THEN ParseError
    ELSE IF Head(tok) = 34 THEN ParseBasic(Tail(tok), <<>>)
    ELSE IF tok = s_true THEN BoolVal(TRUE)
    ELSE IF tok = s_false THEN BoolVal(FALSE)
    ELSE IF (\A i \in 1..Len(tok) : tok[i] \in 48..57) /\ (Len(tok) = 1 \/ tok[1] # 48)
         THEN IntVal(tok)
    ELSE ParseError

\* tomllib: one table
ParseTable(lines) == [i \in 1..Len(lines) |-> <<lines[i][1], ParseToken(lines[i][2])>>]

TableOk(lines) == \A i \in 1..Len(lines) : ParseToken(lines[i][2]) # ParseError

\* tomllib.load raises TOMLDecodeError unless every value parses
LoadOk(f) == TableOk(f.conda) /\ \A i \in 1..Len(f.packages) : TableOk(f.packages[i])

\* tomllib.load
Load(f) ==
    [conda |-> ParseTable(f.conda),
     packages |-> [i \in 1..Len(f.packages) |-> ParseTable(f.packages[i])]]

(***************************************************************************)
(* update_config: the merge.  packages_by_key is the sequence of its       *)
(* [key, pkg] items in insertion order.                                    *)
(***************************************************************************)
InDict(d, key) == \E i \in 1..Len(d) : d[i].key = key

\* the key of an existing entry
ExistingKey(repo, name) == <<lower(repo), name>>

\* IndexStep where a later entry with the same key replaces the earlier one
IndexStepLastWins(d, pkg) ==
    LET repo == Get(pkg, "repository", StrVal(<<>>))
    IN  IF Truthy(repo)
        THEN LET name == Get(pkg, "name", NoneVal)
                 key == ExistingKey(repo.v, name)
             IN  IF ~InDict(d, key)
                 THEN Append(d, [key |-> key, pkg |-> pkg])
                 ELSE [i \in 1..Len(d) |-> IF d[i].key = key THEN [key |-> key, pkg |-> pkg] ELSE d[i]]
        ELSE d

\* one pass of the loop over existing_packages
IndexStep(d, pkg) ==
    LET repo == Get(pkg, "repository", StrVal(<<>>))
    IN  IF Truthy(repo)
        THEN LET name == Get(pkg, "name", NoneVal)
                 key == ExistingKey(repo.v, name)
             IN  IF ~InDict(d, key) THEN Append(d, [key |-> key, pkg |-> pkg]) ELSE d
        ELSE d

RECURSIVE IndexExisting(_, _)
IndexExisting(pkgs, d) ==
    IF pkgs = <<>> THEN d ELSE IndexExisting(Tail(pkgs), IndexStep(d, Head(pkgs)))

\* NewKey without the lower-casing
NewKeyExact(repo) == <<repo, NoneVal>>

\* the key of an identifier from aqua
NewKey(repo) == <<lower(repo), NoneVal>>

\* AddStep that takes any entry of the repository, named or not, as present
AddStepAnyName(d, repo) ==
    IF repo # <<>>
    THEN IF ~(\E i \in 1..Len(d) : d[i].key[1] = lower(repo))
         THEN Append(d, [key |-> <<lower(repo), NoneVal>>, pkg |-> << <<"repository", StrVal(repo)>> >>])
         ELSE d
    ELSE d

\* AddStep where the identifier replaces an entry with the same key
AddStepOverwrite(d, repo) ==
    IF repo # <<>>
    THEN LET key == <<lower(repo), NoneVal>>
             item == [key |-> key, pkg |-> << <<"repository", StrVal(repo)>> >>]
         IN  IF ~InDict(d, key)
             THEN Append(d, item)
             ELSE [i \in 1..Len(d) |-> IF d[i].key = key THEN item ELSE d[i]]
    ELSE d

\* one pass of the loop over aqua_repos
AddStep(d, repo) ==
    IF repo # <<>>
    THEN LET key == NewKey(repo)
         IN  IF ~InDict(d, key)
             THEN Append(d, [key |-> key, pkg |-> << <<"repository", StrVal(repo)>> >>])
             ELSE d
    ELSE d

RECURSIVE AddRepos(_, _)
AddRepos(order, d) ==
    IF order = <<>> THEN d ELSE AddRepos(Tail(order), AddStep(d, Head(order)))

\* value or ""
OrEmpty(val) == IF Truthy(val) THEN val.v ELSE <<>>

\* SortKey without the lower-casing
SortKeyExact(p) == <<Get(p, "repository", StrVal(<<>>)).v, OrEmpty(Get(p, "name", NoneVal))>>

\* the sort key of an entry
SortKey(p) == <<lower(Get(p, "repository", StrVal(<<>>)).v), OrEmpty(Get(p, "name", NoneVal))>>

\* sorted() is stable: an item goes behind the items that are not greater
SortInsert(s, p) ==
    LET k == Cardinality({i \in 1..Len(s) : TupleLeq(SortKey(s[i]), SortKey(p))})
    IN  SubSeq(s, 1, k) \o <<p>> \o SubSeq(s, k + 1, Len(s))

RECURSIVE SortFrom(_, _)
SortFrom(items, s) ==
    IF items = <<>> THEN s ELSE SortFrom(Tail(items), SortInsert(s, Head(items)))

\* sorted(packages_by_key.values(), key=...)
Sorted(d) == SortFrom([i \in 1..Len(d) |-> d[i].pkg], <<>>)

\* the entry list update_config writes
MergedPackages(existing, order) == Sorted(AddRepos(order, IndexExisting(existing, <<>>)))

(***************************************************************************)
(* update_config: the rewrite.                                             *)
(***************************************************************************)
\* the text of a value after "key = "
RenderValue(val) == IF val.t = "str" THEN Quote \o val.v \o Quote ELSE val.v

\* the keys of a dict other than repository and name, in order
RECURSIVE OtherFields(_)
OtherFields(pkg) ==
    IF pkg = <<>> THEN <<>>
    ELSE IF Head(pkg)[1] \in {"repository", "name"} THEN OtherFields(Tail(pkg))
    ELSE <<Head(pkg)>> \o OtherFields(Tail(pkg))

RenderFields(fields) == [i \in 1..Len(fields) |-> <<fields[i][1], RenderValue(fields[i][2])>>]

\* one [[packages]] table
RenderPkg(pkg) ==
    << <<"repository", Quote \o Get(pkg, "repository", NoneVal).v \o Quote>> >>
    \o (IF Has(pkg, "name") THEN << <<"name", Quote \o Get(pkg, "name", NoneVal).v \o Quote>> >> ELSE <<>>)
    \o RenderFields(OtherFields(pkg))

\* the file update_config writes
Render(conda_section, pkgs) ==
    [conda |-> RenderFields(conda_section),
     packages |-> [i \in 1..Len(pkgs) |-> RenderPkg(pkgs[i])]]

(***************************************************************************)
(* main.  An invocation is the length of sys.argv and what the file system *)
(* answers for the two paths given.                                        *)
(***************************************************************************)
Invocations ==
    { [argc |-> 3, is_dir |-> TRUE, has_marker |-> TRUE, is_file |-> TRUE],
      [argc |-> 2, is_dir |-> TRUE, has_marker |-> TRUE, is_file |-> FALSE],
      [argc |-> 3, is_dir |-> FALSE, has_marker |-> FALSE, is_file |-> TRUE],
      [argc |-> 3, is_dir |-> TRUE, has_marker |-> FALSE, is_file |-> TRUE],
      [argc |-> 3, is_dir |-> TRUE, has_marker |-> TRUE, is_file |-> FALSE] }

NoInvocation == [argc |-> 0, is_dir |-> FALSE, has_marker |-> FALSE, is_file |-> FALSE]

\* Validate without the check of the target config
ValidateNoConfig(i) ==
    IF i.argc # 3 THEN "usage"
    ELSE IF ~i.is_dir THEN "no_directory"
    ELSE IF ~i.has_marker THEN "no_marker"
    ELSE "ok"

\* the checks of main in their order: "ok", or the check that returns 1
Validate(i) ==
    IF i.argc # 3 THEN "usage"
    ELSE IF ~i.is_dir THEN "no_directory"
    ELSE IF ~i.has_marker THEN "no_marker"
    ELSE IF ~i.is_file THEN "no_config"
    ELSE "ok"

\* the orders a set can be iterated in
Orderings(S) ==
    LET n == Cardinality(S)
    IN  {o \in [1..n -> S] : \A i, j \in 1..n : o[i] = o[j] => i = j}

Q(s) == Quote \o s \o Quote

PriorTables ==
    { << <<"repository", Q(s_foo_bar)>> >>,
      << <<"repository", Q(s_Foo_bar)>>, <<"note", Q(s_2bs \o s_2bs)>> >>,
      << <<"repository", Q(s_foo_bar)>>, <<"name", Q(s_cli)>> >>,
      << <<"rank", s_1>>, <<"repository", Q(s_Zed_x)>>, <<"name", Q(<<>>)>> >>,
      << <<"repository", Q(<<>>)>>, <<"note", Q(s_x)>> >>,
      << <<"repository", Q(s_Zed_x)>>, <<"pinned", s_true>> >> }

CondaTables == { <<>>, << <<"channel", Q(s_conda_forge)>> >> }

VARIABLES
    tree,               \* the registry.yaml files below pkgs/, in rglob order
    file,               \* the target config
    file_before,        \* the target config when the last invocation began
    inv,                \* the last invocation
    exit_code,          \* its exit status
    raised,             \* it ended in an exception
    scanned,            \* the number of registry files it read
    opened_w,           \* it opened the target config for writing
    existing_packages,  \* update_config: config.get("packages", [])
    aqua_repos,         \* the identifier set extract_aqua_repos returned
    sorted_packages,    \* update_config: the entry list written
    written,            \* the target config is as update_config wrote it
    rerun               \* file_before was as update_config wrote it

vars == <<tree, file, file_before, inv, exit_code, raised, scanned, opened_w,
          existing_packages, aqua_repos, sorted_packages, written, rerun>>

Init ==
    /\ tree \in SeqsUpTo(RegistryDocs, MaxFiles)
    /\ file \in [conda : CondaTables, packages : SeqsUpTo(PriorTables, MaxPkgs)]
    /\ file_before = file
    /\ inv = NoInvocation
    /\ exit_code = 0
    /\ raised = FALSE
    /\ scanned = 0
    /\ opened_w = FALSE
    /\ existing_packages = <<>>
    /\ aqua_repos = {}
    /\ sorted_packages = <<>>
    /\ written = FALSE
    /\ rerun = FALSE

\* main returns 1 from one of its checks
MainRejected ==
    \E i \in Invocations :
        /\ Validate(i) # "ok"
        /\ inv' = i
        /\ exit_code' = 1
        /\ raised' = FALSE
        /\ scanned' = 0
        /\ opened_w' = FALSE
        /\ file_before' = file
        /\ existing_packages' = <<>>
        /\ aqua_repos' = {}
        /\ sorted_packages' = <<>>
        /\ rerun' = written
        /\ UNCHANGED <<tree, file, written>>

\* main scans, and update_config raises while it reads the target config
MainRaised ==
    \E i \in Invocations :
        /\ Validate(i) = "ok"
        /\ ~i.is_file \/ ~LoadOk(file)
        /\ inv' = i
        /\ exit_code' = 1
        /\ raised' = TRUE
        /\ scanned' = Len(tree)
        /\ opened_w' = FALSE
        /\ file_before' = file
        /\ existing_packages' = <<>>
        /\ aqua_repos' = extract_aqua_repos(tree)
        /\ sorted_packages' = <<>>
        /\ rerun' = written
        /\ UNCHANGED <<tree, file, written>>

\* main scans, update_config merges and rewrites the target config
MainUpdated ==
    \E i \in Invocations :
        /\ Validate(i) = "ok"
        /\ i.is_file /\ LoadOk(file)
        /\ LET repos == extract_aqua_repos(tree)
                config == Load(file)
            IN  /\ aqua_repos' = repos
                /\ existing_packages' = config.packages
                /\ \E order \in Orderings(repos) :
                    /\ sorted_packages' = MergedPackages(config.packages, order)
                    /\ file' = Render(config.conda, sorted_packages')
        /\ inv' = i
        /\ exit_code' = 0
        /\ raised' = FALSE
        /\ scanned' = Len(tree)
        /\ opened_w' = TRUE
        /\ file_before' = file
        /\ written' = TRUE
        /\ rerun' = written
        /\ UNCHANGED tree

Next == MainRejected \/ MainRaised \/ MainUpdated

Spec == Init /\ [][Next]_vars

(***************************************************************************)
(* The properties.                                                         *)
(***************************************************************************)
Repo(p) == Get(p, "repository", StrVal(<<>>)).v

Bare(p) == ~Has(p, "name")

\* the Dedup Key of an entry: (repository lowercased, name or absent)
DedupKey(p) == <<lower(Repo(p)), Get(p, "name", NoneVal)>>

\* the last invocation ran to the end and returned 0
Completed == inv.argc = 3 /\ exit_code = 0

InOutput(p) == \E j \in 1..Len(sorted_packages) : sorted_packages[j] = p

FirstOfKey(pkgs, i) == \A h \in 1..(i - 1) : DedupKey(pkgs[h]) # DedupKey(pkgs[i])

BareOutputs(repo) ==
    {j \in 1..Len(sorted_packages) :
        Bare(sorted_packages[j]) /\ lower(Repo(sorted_packages[j])) = lower(repo)}

\* the elements of the packages lists of the source tree
TreePkgs ==
    UNION { {Get(tree[f].v, "packages", <<>>)[i] : i \in 1..Len(Get(tree[f].v, "packages", <<>>))} :
            f \in {g \in 1..Len(tree) : tree[g].t = "dict" /\ Has(tree[g].v, "packages")} }

SelectedPkg(pkg) ==
    /\ Has(pkg, "type") /\ Get(pkg, "type", NoneVal).v = s_github_release
    /\ Has(pkg, "repo_owner") /\ Get(pkg, "repo_owner", NoneVal).v # <<>>
    /\ Has(pkg, "repo_name") /\ Get(pkg, "repo_name", NoneVal).v # <<>>

SelectedIds ==
    {Get(p, "repo_owner", NoneVal).v \o Slash \o Get(p, "repo_name", NoneVal).v :
        p \in {q \in TreePkgs : SelectedPkg(q)}}

\* C1 as stated: after a run every selected identifier is the repository of
\* exactly one entry of the entry list written.
C1_ExactlyOnce ==
    Completed =>
        \A id \in SelectedIds :
            Cardinality({j \in 1..Len(sorted_packages) : Repo(sorted_packages[j]) = id}) = 1

\* C1 amended: after a run every selected identifier is, compared without
\* regard to letter case, the repository of exactly one entry without a name
\* in the entry list written.
C1_ExactlyOneBare ==
    Completed => \A id \in SelectedIds : Cardinality(BareOutputs(id)) = 1

C1_Witness ==
    /\ Completed
    /\ {s_foo_bar, s_Foo_bar} \subseteq SelectedIds
    /\ \E j \in 1..Len(sorted_packages) :
        ~Bare(sorted_packages[j]) /\ Repo(sorted_packages[j]) = s_foo_bar
    /\ ~\E i \in 1..Len(existing_packages) :
        Bare(existing_packages[i]) /\ lower(Repo(existing_packages[i])) = s_foo_bar

\* C2: no two entries of the entry list written share a Dedup Key.
C2_UniqueKeys ==
    Completed =>
        \A i, j \in 1..Len(sorted_packages) :
            DedupKey(sorted_packages[i]) = DedupKey(sorted_packages[j]) => i = j

C2_Witness ==
    /\ Completed
    /\ \E i, j \in 1..Len(existing_packages) :
        /\ i < j
        /\ Repo(existing_packages[i]) # <<>>
        /\ DedupKey(existing_packages[i]) = DedupKey(existing_packages[j])
    /\ \E id \in aqua_repos : \E i \in 1..Len(existing_packages) :
        /\ Bare(existing_packages[i])
        /\ lower(Repo(existing_packages[i])) = lower(id)
        /\ Repo(existing_packages[i]) # id

\* (repository lowercased, name or the empty string)
OrderKey(p) == <<lower(Repo(p)), IF Has(p, "name") THEN Get(p, "name", NoneVal).v ELSE <<>> >>

\* C3: the entries written are sorted by (repository lowercased, name or
\* empty string): each entry's key is at most the key of the next entry.
C3_Sorted ==
    Completed =>
        \A i \in 1..(Len(sorted_packages) - 1) :
            TupleLeq(OrderKey(sorted_packages[i]), OrderKey(sorted_packages[i + 1]))

C3_Witness ==
    /\ Completed
    /\ \E i, j \in 1..Len(sorted_packages) :
        i < j /\ StrLess(Repo(sorted_packages[j]), Repo(sorted_packages[i]))
    /\ \E i \in 1..(Len(sorted_packages) - 1) :
        /\ lower(Repo(sorted_packages[i])) = lower(Repo(sorted_packages[i + 1]))
        /\ OrderKey(sorted_packages[i]) # OrderKey(sorted_packages[i + 1])

\* C4: a run on the file the run before it wrote, with the same identifier
\* set (the source tree does not change), leaves the file as it was.
C4_Idempotent == (Completed /\ rerun) => file = file_before

\* C5: the entry list written does not depend on the order the identifier
\* set is iterated in.
C5_Deterministic ==
    Completed =>
        \A o \in Orderings(aqua_repos) :
            MergedPackages(existing_packages, o) = sorted_packages

NamedEntry == << <<"repository", StrVal(s_foo_bar)>>, <<"name", StrVal(s_cli)>> >>

BareEntry == << <<"repository", StrVal(s_foo_bar)>> >>

\* the target config holds foo/bar with the name cli and no bare foo/bar,
\* and the source tree yields foo/bar
C6_Scenario ==
    /\ Completed
    /\ \E i \in 1..Len(existing_packages) :
        existing_packages[i] = NamedEntry /\ FirstOfKey(existing_packages, i)
    /\ ~\E i \in 1..Len(existing_packages) :
        Bare(existing_packages[i]) /\ Repo(existing_packages[i]) = s_foo_bar
    /\ s_foo_bar \in aqua_repos

\* C6 as stated: in the scenario the named entry is kept and no bare
\* foo/bar entry is added.
C6_NoBareAdded ==
    C6_Scenario =>
        /\ InOutput(NamedEntry)
        /\ ~\E j \in 1..Len(sorted_packages) :
            Bare(sorted_packages[j]) /\ Repo(sorted_packages[j]) = s_foo_bar

\* C6 amended: in the scenario, with no bare entry of foo/bar in any letter
\* case in the target config, the named entry is kept unchanged and one bare
\* entry of foo/bar is added beside it, spelled foo/bar when the identifier
\* set holds no other spelling.
C6_BareAdded ==
    (C6_Scenario /\ ~\E i \in 1..Len(existing_packages) :
                        Bare(existing_packages[i]) /\ lower(Repo(existing_packages[i])) = s_foo_bar)
    =>  /\ InOutput(NamedEntry)
        /\ Cardinality(BareOutputs(s_foo_bar)) = 1
        /\ (\A id \in aqua_repos : lower(id) = s_foo_bar => id = s_foo_bar) => InOutput(BareEntry)

C6_Witness ==
    /\ C6_Scenario
    /\ InOutput(NamedEntry)
    /\ InOutput(BareEntry)
    /\ ~\E i \in 1..Len(existing_packages) : existing_packages[i] = BareEntry

\* C7 as stated: every entry of the target config before the run is in the
\* entry list written, and every identifier is the repository of an entry
\* written.
C7_Union ==
    Completed =>
        /\ \A i \in 1..Len(existing_packages) : InOutput(existing_packages[i])
        /\ \A id \in aqua_repos :
            \E j \in 1..Len(sorted_packages) : Repo(sorted_packages[j]) = id

\* C7 amended: every prior entry with a non-empty repository that is the
\* first of its Dedup Key is in the entry list written, every prior entry
\* with a non-empty repository has its Dedup Key there, and every identifier
\* is, without regard to letter case, the repository of an entry written
\* that has no name.
C7_UnionByKey ==
    Completed =>
        /\ \A i \in 1..Len(existing_packages) :
            Repo(existing_packages[i]) # <<>> =>
                /\ FirstOfKey(existing_packages, i) => InOutput(existing_packages[i])
                /\ \E j \in 1..Len(sorted_packages) :
                    DedupKey(sorted_packages[j]) = DedupKey(existing_packages[i])
        /\ \A id \in aqua_repos : BareOutputs(id) # {}

C7_Witness ==
    /\ Completed
    /\ \E i \in 1..Len(existing_packages) :
        Repo(existing_packages[i]) # <<>> /\ ~InOutput(existing_packages[i])
    /\ \E id \in aqua_repos :
        /\ ~\E i \in 1..Len(existing_packages) : lower(Repo(existing_packages[i])) = lower(id)
        /\ \E j \in 1..Len(sorted_packages) : Repo(sorted_packages[j]) = id

\* the run added no entry for the repository of p
NoNewFor(p) ==
    \A id \in aqua_repos :
        lower(id) = lower(Repo(p)) =>
            \E h \in 1..Len(existing_packages) :
                Bare(existing_packages[h]) /\ lower(Repo(existing_packages[h])) = lower(id)

\* C8: an entry the run keeps, with fields other than repository and name,
\* has in the file written the same such fields, with the same values, in
\* the same order, when the run adds no identifier for its repository.
C8_FieldsKept ==
    Completed =>
        \A i \in 1..Len(existing_packages) :
            ( /\ Repo(existing_packages[i]) # <<>>
              /\ FirstOfKey(existing_packages, i)
              /\ OtherFields(existing_packages[i]) # <<>>
              /\ NoNewFor(existing_packages[i]) )
            =>  /\ LoadOk(file)
                /\ \E j \in 1..Len(file.packages) :
                    /\ DedupKey(ParseTable(file.packages[j])) = DedupKey(existing_packages[i])
                    /\ OtherFields(ParseTable(file.packages[j])) = OtherFields(existing_packages[i])

\* C9: an invocation that fails a check of main returns 1, reads no registry
\* file, does not open the target config for writing and leaves it as it was.
C9_ValidationFirst ==
    (inv # NoInvocation /\ (inv.argc # 3 \/ ~inv.is_dir \/ ~inv.has_marker \/ ~inv.is_file))
    =>  /\ exit_code = 1
        /\ scanned = 0
        /\ ~opened_w
        /\ file = file_before

C9_Witness ==
    /\ inv.argc = 3 /\ inv.is_dir /\ inv.has_marker /\ ~inv.is_file
    /\ exit_code = 1
    /\ Len(tree) > 0
    /\ written

\* C10 as stated: of several prior entries with one Dedup Key the first is
\* in the entry list written, and is the only entry written with that key.
C10_FirstKept ==
    Completed =>
        \A i \in 1..Len(existing_packages) :
            ( /\ FirstOfKey(existing_packages, i)
              /\ \E h \in (i + 1)..Len(existing_packages) :
                    DedupKey(existing_packages[h]) = DedupKey(existing_packages[i]) )
            =>  /\ InOutput(existing_packages[i])
                /\ Cardinality({j \in 1..Len(sorted_packages) :
                        DedupKey(sorted_packages[j]) = DedupKey(existing_packages[i])}) = 1

\* C10 amended: a prior entry with a non-empty repository that is the first
\* of its Dedup Key is in the entry list written as it was, and is the only
\* entry written with that key; neither a later prior entry nor an
\* identifier takes its place.
C10_FirstNonEmptyKept ==
    Completed =>
        \A i \in 1..Len(existing_packages) :
            (Repo(existing_packages[i]) # <<>> /\ FirstOfKey(existing_packages, i))
            =>  /\ InOutput(existing_packages[i])
                /\ Cardinality({j \in 1..Len(sorted_packages) :
                        DedupKey(sorted_packages[j]) = DedupKey(existing_packages[i])}) = 1

C10_Witness ==
    /\ Completed
    /\ \E i, h \in 1..Len(existing_packages) :
        /\ i < h
        /\ Repo(existing_packages[i]) # <<>>
        /\ Bare(existing_packages[i])
        /\ DedupKey(existing_packages[h]) = DedupKey(existing_packages[i])
        /\ existing_packages[h] # existing_packages[i]
        /\ \E id \in aqua_repos :
            lower(id) = lower(Repo(existing_packages[i])) /\ id # Repo(existing_packages[i])

====
